---- MODULE Spec2Model ----
(***************************************************************************)
(* A model of the fiber scheduler of                                       *)
(* src/renderers/shared/fiber/ReactFiberScheduler.js.                      *)
(*                                                                         *)
(* JavaScript is single threaded and the scheduler is re-entrant: user     *)
(* code that runs inside batchedUpdates, performWithPriority, syncUpdates, *)
(* beginWork and the commit life-cycles may call back into the scheduler.  *)
(* The model therefore keeps the call stack explicitly.  Each frame of     *)
(* "stack" is one activation of a scheduler function; "exc" is the error   *)
(* that is propagating (0 when none).  The host fires its callbacks only   *)
(* when the stack is empty.                                                *)
(***************************************************************************)
EXTENDS Integers, Sequences, FiniteSets, TLC

\* ------------------------------------------------------------------ bounds
NumRoots == 2
\* The number of things user code does in one run: calls of the scheduler's
\* functions and errors thrown or trapped
MaxEvents == 4

\* -------------------------------------------------------- priority lattice
SynchronousPriority == 1
AnimationPriority == 2
LowPriority == 3
NoWork == 4

timeHeuristicForUnitOfWork == 1

Priorities == {SynchronousPriority, AnimationPriority, LowPriority, NoWork}
WorkPriorities == Priorities \ {NoWork}

\* ------------------------------------------------------------ fiber trees
\* Every root owns a HostContainer fiber with one Component child, each in
\* two buffers (fiber and alternate).  A fiber is <<root, tag, buffer>>.
\* The tree has two levels only: the fiber above a component is the root's,
\* and it stands for the error boundary above the component as well.
Roots == 1 .. NumRoots
NoRoot == 0
Null == <<>>
HostContainer == "HostContainer"
Component == "Component"
Fibers == Roots \X {HostContainer, Component} \X {0, 1}

Alternate(f) == <<f[1], f[2], 1 - f[3]>>
Return(f) == IF f[2] = HostContainer THEN Null ELSE <<f[1], HostContainer, f[3]>>
Child(f) == IF f[2] = HostContainer THEN <<f[1], Component, f[3]>> ELSE Null

\* The deadline's readings
TimeRemaining == 0 .. 2

\* The deferred loop has not read the deadline since its last unit of work
NoReading == -1

\* rootNext is root.nextScheduledRoot; hostAnimation and hostDeferred count the
\* callbacks the host holds and has not fired; stack and exc are the call stack
\* and the error being thrown.  The last four variables are history that no
\* action reads: events counts what user code has done, preempted says that
\* work more urgent than the tree in progress was scheduled since the unit of
\* work last came from findNextUnitOfWork, deferred holds the roots that had
\* less urgent work when a synchronous or animation loop ended and have not
\* been committed since, lastHandled is the list of trapped errors that the
\* last handleErrors to end has visited.
VARIABLES
  useSyncScheduling,
  priorityContext,
  shouldBatchUpdates,
  nextUnitOfWork,
  nextPriorityLevel,
  nextScheduledRoot,
  lastScheduledRoot,
  isAnimationCallbackScheduled,
  isDeferredCallbackScheduled,
  isScheduled,
  rootNext,
  current,
  pendingWorkPriority,
  hostAnimation,
  hostDeferred,
  stack,
  exc,
  events,
  preempted,
  deferred,
  lastHandled

sched == <<priorityContext, shouldBatchUpdates, nextUnitOfWork, nextPriorityLevel,
           nextScheduledRoot, lastScheduledRoot, isAnimationCallbackScheduled,
           isDeferredCallbackScheduled, isScheduled, rootNext, current,
           pendingWorkPriority, hostAnimation, hostDeferred, preempted, deferred>>

\* The effect lists of one work-in-progress tree, for completeUnitOfWork and
\* commitAllWork: fiberReturn is fiber.return; nextUnit the next unit of work of
\* the pass; phase where the pass is; effectfulFiber the variable of the
\* loops of commitAllWork; workPriority, pendingProps and updateQueue are
\* fiber.pendingWorkPriority and whether fiber.pendingProps and
\* fiber.updateQueue are set. History: completed lists the fibers in the order
\* of their completion, calls the calls commitAllWork made, startTag and
\* startList the effect tags and the root's effect list when commitAllWork
\* was called.
VARIABLES
  fiberReturn,
  effectTag,
  firstEffect,
  lastEffect,
  nextEffect,
  nextUnit,
  phase,
  effectfulFiber,
  completed,
  calls,
  startTag,
  startList,
  workPriority,
  pendingProps,
  updateQueue

effects == <<fiberReturn, effectTag, firstEffect, lastEffect, nextEffect,
             nextUnit, phase, effectfulFiber, completed, calls,
             startTag, startList, workPriority, pendingProps, updateQueue>>

scheduler == <<useSyncScheduling, priorityContext, shouldBatchUpdates, nextUnitOfWork,
               nextPriorityLevel, nextScheduledRoot, lastScheduledRoot,
               isAnimationCallbackScheduled, isDeferredCallbackScheduled, isScheduled,
               rootNext, current, pendingWorkPriority, hostAnimation, hostDeferred,
               stack, exc, events, preempted, deferred, lastHandled>>

vars == <<scheduler, effects>>


\* The scheduler's state as one record, so that the scheduler's functions are
\* operators from state to state.
St ==
  [ priorityContext |-> priorityContext,
    shouldBatchUpdates |-> shouldBatchUpdates,
    nextUnitOfWork |-> nextUnitOfWork,
    nextPriorityLevel |-> nextPriorityLevel,
    nextScheduledRoot |-> nextScheduledRoot,
    lastScheduledRoot |-> lastScheduledRoot,
    isAnimationCallbackScheduled |-> isAnimationCallbackScheduled,
    isDeferredCallbackScheduled |-> isDeferredCallbackScheduled,
    isScheduled |-> isScheduled,
    rootNext |-> rootNext,
    current |-> current,
    pwp |-> pendingWorkPriority,
    hostAnimation |-> hostAnimation,
    hostDeferred |-> hostDeferred,
    preempted |-> preempted,
    deferred |-> deferred ]

Apply(t) ==
  /\ priorityContext' = t.priorityContext
  /\ shouldBatchUpdates' = t.shouldBatchUpdates
  /\ nextUnitOfWork' = t.nextUnitOfWork
  /\ nextPriorityLevel' = t.nextPriorityLevel
  /\ nextScheduledRoot' = t.nextScheduledRoot
  /\ lastScheduledRoot' = t.lastScheduledRoot
  /\ isAnimationCallbackScheduled' = t.isAnimationCallbackScheduled
  /\ isDeferredCallbackScheduled' = t.isDeferredCallbackScheduled
  /\ isScheduled' = t.isScheduled
  /\ rootNext' = t.rootNext
  /\ current' = t.current
  /\ pendingWorkPriority' = t.pwp
  /\ hostAnimation' = t.hostAnimation
  /\ hostDeferred' = t.hostDeferred
  /\ preempted' = t.preempted
  /\ deferred' = t.deferred

\* root.current
RootCurrent(t, r) == <<r, HostContainer, t.current[r]>>

\* ------------------------------------------------------ host callbacks
\* if (!isDeferredCallbackScheduled) { isDeferredCallbackScheduled = true;
\*   scheduleDeferredCallback(performDeferredWork); }
\* The registration without the test of the flag
RequestDeferredCallbackUnguarded(t) ==
  [t EXCEPT !.isDeferredCallbackScheduled = TRUE, !.hostDeferred = @ + 1]

RequestDeferredCallback(t) ==
  IF ~t.isDeferredCallbackScheduled
  THEN [t EXCEPT !.isDeferredCallbackScheduled = TRUE, !.hostDeferred = @ + 1]
  ELSE t

\* if (!isAnimationCallbackScheduled) { isAnimationCallbackScheduled = true;
\*   scheduleAnimationCallback(performAnimationWork); }
RequestAnimationCallback(t) ==
  IF ~t.isAnimationCallbackScheduled
  THEN [t EXCEPT !.isAnimationCallbackScheduled = TRUE, !.hostAnimation = @ + 1]
  ELSE t

\* ------------------------------------------------------ findNextUnitOfWork
\* cloneFiber(fiber, priority): the alternate, with the given pending priority.
CloneFiber(t, f, priority) ==
  [st |-> [t EXCEPT !.pwp[Alternate(f)] = priority], ret |-> Alternate(f)]

\* The first loop: unschedule the leading roots with no work.
RECURSIVE ClearRoots(_)
ClearRoots(t) ==
  IF /\ t.nextScheduledRoot # NoRoot
     /\ t.pwp[RootCurrent(t, t.nextScheduledRoot)] = NoWork
  THEN LET r == t.nextScheduledRoot
           next == t.rootNext[r]
           u == [t EXCEPT !.isScheduled[r] = FALSE, !.rootNext[r] = NoRoot]
       IN IF r = t.lastScheduledRoot
          THEN [st |-> [u EXCEPT !.nextScheduledRoot = NoRoot,
                                 !.lastScheduledRoot = NoRoot,
                                 !.nextPriorityLevel = NoWork],
                exhausted |-> TRUE]
          ELSE ClearRoots([u EXCEPT !.nextScheduledRoot = next])
  ELSE [st |-> t, exhausted |-> FALSE]

\* The second loop with >= for >: the last root wins a tie
RECURSIVE HighestPriorityRootLastWins(_, _, _, _)
HighestPriorityRootLastWins(t, root, highestPriorityRoot, highestPriorityLevel) ==
  IF root = NoRoot
  THEN [root |-> highestPriorityRoot, level |-> highestPriorityLevel]
  ELSE LET p == t.pwp[RootCurrent(t, root)]
       IN IF p # NoWork /\ (highestPriorityLevel = NoWork \/ highestPriorityLevel >= p)
          THEN HighestPriorityRootLastWins(t, t.rootNext[root], root, p)
          ELSE HighestPriorityRootLastWins(t, t.rootNext[root], highestPriorityRoot,
                                           highestPriorityLevel)

\* The second loop: the most urgent root of the chain, the first one on a tie.
RECURSIVE HighestPriorityRoot(_, _, _, _)
HighestPriorityRoot(t, root, highestPriorityRoot, highestPriorityLevel) ==
  IF root = NoRoot
  THEN [root |-> highestPriorityRoot, level |-> highestPriorityLevel]
  ELSE LET p == t.pwp[RootCurrent(t, root)]
       IN IF p # NoWork /\ (highestPriorityLevel = NoWork \/ highestPriorityLevel > p)
          THEN HighestPriorityRoot(t, t.rootNext[root], root, p)
          ELSE HighestPriorityRoot(t, t.rootNext[root], highestPriorityRoot,
                                   highestPriorityLevel)

FindNextUnitOfWork(t) ==
  LET c == ClearRoots(t)
  IN IF c.exhausted
     THEN [st |-> c.st, ret |-> Null]
     ELSE LET h == HighestPriorityRoot(c.st, c.st.nextScheduledRoot, NoRoot, NoWork)
          IN IF h.root # NoRoot
             THEN CloneFiber([c.st EXCEPT !.nextPriorityLevel = h.level],
                             RootCurrent(c.st, h.root), h.level)
             ELSE [st |-> [c.st EXCEPT !.nextPriorityLevel = NoWork], ret |-> Null]

\* ------------------------------------------------------- scheduling calls
\* if (!root.isScheduled) { root.isScheduled = true; append at the tail }
AppendRoot(t, root) ==
  IF ~t.isScheduled[root]
  THEN IF t.lastScheduledRoot # NoRoot
       THEN [t EXCEPT !.isScheduled[root] = TRUE,
                      !.rootNext[t.lastScheduledRoot] = root,
                      !.lastScheduledRoot = root]
       ELSE [t EXCEPT !.isScheduled[root] = TRUE,
                      !.nextScheduledRoot = root,
                      !.lastScheduledRoot = root]
  ELSE t

\* Set the priority on the root, without deprioritizing
SetRootPriority(t, root, priority) ==
  IF \/ t.pwp[RootCurrent(t, root)] = NoWork
     \/ priority <= t.pwp[RootCurrent(t, root)]
  THEN [t EXCEPT !.pwp[RootCurrent(t, root)] = priority]
  ELSE t

\* if (priority <= nextPriorityLevel) nextUnitOfWork = null
ResetUnitOfWork(t, priority) ==
  IF priority <= t.nextPriorityLevel
  THEN [t EXCEPT !.nextUnitOfWork = Null]
  ELSE t

ScheduleDeferredWork(t, root, priority) ==
  RequestDeferredCallback(
    AppendRoot(SetRootPriority(ResetUnitOfWork(t, priority), root, priority), root))

ScheduleAnimationWork(t, root, priorityLevel) ==
  RequestAnimationCallback(AppendRoot(SetRootPriority(t, root, priorityLevel), root))

\* scheduleSynchronousWork without the test of shouldBatchUpdates
ScheduleSynchronousWorkUnbatched(t, root) ==
  LET u == [t EXCEPT !.pwp[RootCurrent(t, root)] = SynchronousPriority]
  IN IF u.isScheduled[root]
     THEN [st |-> u, flush |-> FALSE]
     ELSE [st |-> AppendRoot(u, root), flush |-> u.lastScheduledRoot = NoRoot]

\* scheduleSynchronousWork up to its call of performSynchronousWork; "flush"
\* says whether that call is made.
ScheduleSynchronousWork(t, root) ==
  LET u == [t EXCEPT !.pwp[RootCurrent(t, root)] = SynchronousPriority]
  IN IF u.isScheduled[root]
     THEN [st |-> u, flush |-> FALSE]
     ELSE [st |-> AppendRoot(u, root),
           flush |-> u.lastScheduledRoot = NoRoot /\ ~u.shouldBatchUpdates]

ScheduleWorkAtPriority(t, root, priorityLevel) ==
  IF priorityLevel = NoWork
  THEN [st |-> t, flush |-> FALSE]
  ELSE IF priorityLevel = SynchronousPriority
  THEN ScheduleSynchronousWork(t, root)
  ELSE IF priorityLevel <= AnimationPriority
  THEN [st |-> ScheduleAnimationWork(t, root, priorityLevel), flush |-> FALSE]
  ELSE [st |-> ScheduleDeferredWork(t, root, priorityLevel), flush |-> FALSE]

ScheduleWork(t, root) == ScheduleWorkAtPriority(t, root, t.priorityContext)

\* scheduleUpdate's walk: the priority of a fiber and of its alternate
MarkPriority(pwp, f, priorityLevel) ==
  LET one(q, g) == IF q[g] = NoWork \/ q[g] >= priorityLevel
                   THEN [q EXCEPT ![g] = priorityLevel] ELSE q
  IN one(one(pwp, f), Alternate(f))

RECURSIVE MarkPath(_, _, _)
MarkPath(pwp, f, priorityLevel) ==
  IF Return(f) = Null
  THEN MarkPriority(pwp, f, priorityLevel)
  ELSE MarkPath(MarkPriority(pwp, f, priorityLevel), Return(f), priorityLevel)

ScheduleUpdate(t, fiber) ==
  ScheduleWorkAtPriority(
    [t EXCEPT !.pwp = MarkPath(t.pwp, fiber, t.priorityContext)],
    fiber[1], t.priorityContext)

\* ------------------------------------------------------------ call stack
\* One activation record.  k names the function; pc the place in it.
\*   performWithPriority, syncUpdates: pc "fn" (fn is running), prevP saved
\*   batchedUpdates: pc "fn" | "flush" (performSynchronousWork called from the
\*     finally block), prevB saved, pend the error fn threw (0: none)
\*   performSynchronousWork: prevB saved
\*   performAndHandleErrors: level, pc "loop" (inside the try, in one of the
\*     three work loops) | "caught" (in the catch block, in handleErrors)
\*   performUnitOfWork: fiber, ignore (ignoreUnmountingErrors), pc "beginWork" |
\*     "commitAllWork" | "handleErrors" (commitAllWork's call of handleErrors)
\*   handleErrors: pc "while" | "forEach" | "recover" | "render"; cur the
\*     trappedErrors still to visit, errs nextTrappedErrors, fue
\*     firstUncaughtError, aff affectedBoundaries, todo the boundaries still to
\*     re-render, boundary and fiber the locals of the re-render loop
\* History, which no action reads: level of a priority scope is the priority it
\* set; log of handleErrors the trapped errors it has visited, in order;
\* pending of performSynchronousWork the registered roots that had synchronous
\* work when it was called, done the roots committed since; time of the
\* deferred loop the reading of deadline.timeRemaining() its loop condition
\* is being evaluated with; of performAndHandleErrors in its catch block,
\* boundary is the boundary trapError gave, done the roots committed since the
\* catch, and clean is false once anything has raised an error since.
Frame0 ==
  [ k |-> "", pc |-> "", prevP |-> 0, prevB |-> FALSE, level |-> 0,
    fiber |-> Null, ignore |-> FALSE, cur |-> <<>>, errs |-> <<>>, fue |-> 0,
    aff |-> <<>>, todo |-> <<>>, boundary |-> Null, pend |-> 0,
    log |-> <<>>, pending |-> {}, done |-> {}, time |-> NoReading,
    clean |-> TRUE, rank |-> 0 ]

\* History: an error is raised during every recovery in progress
MarkRaised(stk) ==
  [i \in 1 .. Len(stk) |->
     IF stk[i].pc = "caught" THEN [stk[i] EXCEPT !.clean = FALSE] ELSE stk[i]]

Top(stk) == stk[Len(stk)]
Pop(stk) == SubSeq(stk, 1, Len(stk) - 1)
SetTop(stk, fr) == [stk EXCEPT ![Len(stk)] = fr]

ScopeKinds == {"performWithPriority", "syncUpdates", "batchedUpdates"}

\* User code is running: host code between callbacks, fn of a scope, the
\* render of a unit of work (beginWork), or a life-cycle of a commit.
UserCode ==
  /\ exc = 0
  /\ \/ stack = <<>>
     \/ /\ stack # <<>>
        /\ \/ Top(stack).k \in ScopeKinds /\ Top(stack).pc = "fn"
           \/ /\ Top(stack).k = "performUnitOfWork"
              /\ Top(stack).pc \in {"beginWork", "commitAllWork"}

\* --------------------------------------------------------- the work loops
\* The statements of performXWorkUnsafe before its loop.
WorkLoopEntry(t, level) ==
  IF level = LowPriority /\ t.nextUnitOfWork # Null
  THEN t
  ELSE LET r == FindNextUnitOfWork(t)
       IN [r.st EXCEPT !.nextUnitOfWork = r.ret, !.preempted = FALSE]

\* The loop condition of performSynchronousWorkUnsafe / performAnimationWorkUnsafe
LoopCondition(t, level) ==
  IF level = SynchronousPriority
  THEN t.nextUnitOfWork # Null /\ t.nextPriorityLevel = SynchronousPriority
  ELSE IF level = AnimationPriority
  THEN /\ t.nextUnitOfWork # Null
       /\ t.nextPriorityLevel # NoWork
       /\ t.nextPriorityLevel <= AnimationPriority
  ELSE t.nextUnitOfWork # Null

\* The loop ends and no host callback is registered for the work left
WorkLoopExitNoCallback(t, level) == t

\* The statements after the loop of performSynchronousWorkUnsafe /
\* performAnimationWorkUnsafe
WorkLoopExit(t, level) ==
  IF level = SynchronousPriority
  THEN IF t.nextUnitOfWork # Null
       THEN IF t.nextPriorityLevel > AnimationPriority
            THEN RequestDeferredCallback(t)
            ELSE RequestAnimationCallback(t)
       ELSE t
  ELSE IF level = AnimationPriority
  THEN IF t.nextUnitOfWork # Null /\ t.nextPriorityLevel > AnimationPriority
       THEN RequestDeferredCallback(t)
       ELSE t
  ELSE t

WorkFrame(level) ==
  [Frame0 EXCEPT !.k = "performAndHandleErrors", !.pc = "loop", !.level = level]

UnitFrame(fiber, ignore) ==
  [Frame0 EXCEPT !.k = "performUnitOfWork", !.pc = "beginWork", !.fiber = fiber,
                 !.ignore = ignore]

\* The roots of the registry: those reached from nextScheduledRoot
RECURSIVE ChainFrom(_, _, _)
ChainFrom(t, root, n) ==
  IF root = NoRoot \/ n = 0 THEN {} ELSE {root} \cup ChainFrom(t, t.rootNext[root], n - 1)

Chain(t) == ChainFrom(t, t.nextScheduledRoot, NumRoots)

\* History: the registered roots whose work is less urgent than the loop that
\* ends are deferred
MarkDeferred(t, level) ==
  [t EXCEPT !.deferred = @ \cup {r \in Chain(t) : /\ t.pwp[RootCurrent(t, r)] # NoWork
                                                  /\ t.pwp[RootCurrent(t, r)] > level}]

\* performSynchronousWork up to the loop of performSynchronousWorkUnsafe
CallPerformSynchronousWork(t, stk) ==
  [ st |-> WorkLoopEntry([t EXCEPT !.shouldBatchUpdates = TRUE], SynchronousPriority),
    stack |-> stk \o << [Frame0 EXCEPT !.k = "performSynchronousWork",
                                       !.pc = "call",
                                       !.prevB = t.shouldBatchUpdates,
                                       !.pending = {r \in Chain(t) :
                                         t.pwp[RootCurrent(t, r)] = SynchronousPriority}],
                        WorkFrame(SynchronousPriority) >> ]

\* A unit of work of a work loop is being performed
UnitInProgress(stk) ==
  \E i \in 1 .. Len(stk) : stk[i].k = "performUnitOfWork" /\ ~stk[i].ignore

\* A scheduling call from user code, and the flush it may start
\* (priority is the priority of the call; preempted records that it was more
\* urgent than a tree in progress)
Scheduled(res, priority) ==
  /\ events < MaxEvents
  /\ events' = events + 1
  /\ LET mark == /\ priority # NoWork
                 /\ priority < nextPriorityLevel
                 /\ nextUnitOfWork # Null \/ UnitInProgress(stack)
         st1 == [res.st EXCEPT !.preempted = @ \/ mark]
     IN IF res.flush
        THEN LET c == CallPerformSynchronousWork(st1, stack)
             IN Apply(c.st) /\ stack' = c.stack
        ELSE Apply(st1) /\ stack' = stack
  /\ UNCHANGED <<effects, useSyncScheduling, exc>>

\* ------------------------------------------------------------- user code
\* scheduleWork(root), at priorityContext
CallScheduleWork(root) ==
  /\ UserCode
  /\ Scheduled(ScheduleWork(St, root), priorityContext)
  /\ UNCHANGED lastHandled

\* scheduleDeferredWork(root, priority)
CallScheduleDeferredWork(root, priority) ==
  /\ UserCode
  /\ Scheduled([st |-> ScheduleDeferredWork(St, root, priority), flush |-> FALSE], priority)
  /\ UNCHANGED lastHandled

\* scheduleUpdate(fiber): setState of a component
CallScheduleUpdate(fiber) ==
  /\ UserCode
  /\ Scheduled(ScheduleUpdate(St, fiber), priorityContext)
  /\ UNCHANGED lastHandled

\* performWithPriority(priorityLevel, fn) up to fn
EnterPerformWithPriority(priorityLevel) ==
  /\ UserCode
  /\ events < MaxEvents
  /\ events' = events + 1
  /\ stack' = Append(stack, [Frame0 EXCEPT !.k = "performWithPriority", !.pc = "fn",
                                           !.prevP = priorityContext,
                                           !.level = priorityLevel])
  /\ Apply([St EXCEPT !.priorityContext = priorityLevel])
  /\ UNCHANGED <<effects, useSyncScheduling, exc, lastHandled>>

\* syncUpdates(fn) up to fn
EnterSyncUpdates ==
  /\ UserCode
  /\ events < MaxEvents
  /\ events' = events + 1
  /\ stack' = Append(stack, [Frame0 EXCEPT !.k = "syncUpdates", !.pc = "fn",
                                           !.prevP = priorityContext,
                                           !.level = SynchronousPriority])
  /\ Apply([St EXCEPT !.priorityContext = SynchronousPriority])
  /\ UNCHANGED <<effects, useSyncScheduling, exc, lastHandled>>

\* batchedUpdates(fn) up to fn
EnterBatchedUpdates ==
  /\ UserCode
  /\ events < MaxEvents
  /\ events' = events + 1
  /\ stack' = Append(stack, [Frame0 EXCEPT !.k = "batchedUpdates", !.pc = "fn",
                                           !.prevB = shouldBatchUpdates])
  /\ Apply([St EXCEPT !.shouldBatchUpdates = TRUE])
  /\ UNCHANGED <<effects, useSyncScheduling, exc, lastHandled>>

\* A scope without its finally block
KeepPriorityContext(t, fr) == t

\* The finally block of performWithPriority / syncUpdates
RestorePriorityContext(t, fr) == [t EXCEPT !.priorityContext = fr.prevP]

\* The finally block of batchedUpdates without the test of shouldBatchUpdates
ExitBatchedUpdatesFlushing(t, stk, e) ==
  LET fr == Top(stk)
      u == [t EXCEPT !.shouldBatchUpdates = fr.prevB]
  IN CallPerformSynchronousWork(u, SetTop(stk, [fr EXCEPT !.pc = "flush", !.pend = e]))
     @@ [exc |-> 0]

\* The finally block of batchedUpdates: shouldBatchUpdates = prev, and
\* performSynchronousWork() when that left the batch.  e is the error fn threw.
ExitBatchedUpdates(t, stk, e) ==
  LET fr == Top(stk)
      u == [t EXCEPT !.shouldBatchUpdates = fr.prevB]
  IN IF ~u.shouldBatchUpdates
     THEN CallPerformSynchronousWork(u, SetTop(stk, [fr EXCEPT !.pc = "flush", !.pend = e]))
          @@ [exc |-> 0]
     ELSE [st |-> u, stack |-> Pop(stk), exc |-> e]

\* fn returns
FnReturn ==
  /\ exc = 0
  /\ stack # <<>>
  /\ Top(stack).k \in ScopeKinds
  /\ Top(stack).pc = "fn"
  /\ IF Top(stack).k = "batchedUpdates"
     THEN LET c == ExitBatchedUpdates(St, stack, 0)
          IN Apply(c.st) /\ stack' = c.stack
     ELSE Apply(RestorePriorityContext(St, Top(stack))) /\ stack' = Pop(stack)
  /\ UNCHANGED <<effects, useSyncScheduling, exc, events, lastHandled>>

\* fn throws
FnThrow ==
  /\ exc = 0
  /\ stack # <<>>
  /\ Top(stack).k \in ScopeKinds
  /\ Top(stack).pc = "fn"
  /\ events < MaxEvents
  /\ events' = events + 1
  /\ exc' = events + 1
  /\ stack' = MarkRaised(stack)
  /\ UNCHANGED <<sched, effects, useSyncScheduling, lastHandled>>

\* ------------------------------------------------------- host callbacks
\* The host runs performAnimationWork
FireAnimationCallback ==
  /\ stack = <<>>
  /\ exc = 0
  /\ hostAnimation > 0
  /\ Apply(WorkLoopEntry([St EXCEPT !.hostAnimation = @ - 1,
                                    !.isAnimationCallbackScheduled = FALSE],
                         AnimationPriority))
  /\ stack' = <<WorkFrame(AnimationPriority)>>
  /\ UNCHANGED <<effects, useSyncScheduling, exc, events, lastHandled>>

\* The host runs performDeferredWork(deadline)
FireDeferredCallback ==
  /\ stack = <<>>
  /\ exc = 0
  /\ hostDeferred > 0
  /\ Apply(WorkLoopEntry([St EXCEPT !.hostDeferred = @ - 1,
                                    !.isDeferredCallbackScheduled = FALSE],
                         LowPriority))
  /\ stack' = <<WorkFrame(LowPriority)>>
  /\ UNCHANGED <<effects, useSyncScheduling, exc, events, lastHandled>>

\* The loop condition of performDeferredWorkUnsafe calls the host:
\* deadline.timeRemaining() is read once the next unit of work is seen.
DeadlineTimeRemaining ==
  /\ exc = 0
  /\ stack # <<>>
  /\ Top(stack).k = "performAndHandleErrors"
  /\ Top(stack).pc = "loop"
  /\ Top(stack).level = LowPriority
  /\ Top(stack).time = NoReading
  /\ nextUnitOfWork # Null
  /\ \E timeRemaining \in TimeRemaining :
       stack' = SetTop(stack, [Top(stack) EXCEPT !.time = timeRemaining])
  /\ UNCHANGED <<sched, effects, useSyncScheduling, exc, events, lastHandled>>

\* The deferred loop goes on after a test of its deadline that failed
DeadlineIgnored(timeRemaining) == TRUE

\* The test of the deadline in the deferred loop
DeadlineAllows(timeRemaining) == timeRemaining > timeHeuristicForUnitOfWork

\* One test of the loop condition of a work loop: the next unit of work is
\* started, or the loop ends and the function returns.
WorkLoopStep ==
  /\ exc = 0
  /\ stack # <<>>
  /\ Top(stack).k = "performAndHandleErrors"
  /\ Top(stack).pc = "loop"
  /\ LET level == Top(stack).level
     IN IF level = LowPriority
        THEN IF nextUnitOfWork # Null
             THEN /\ Top(stack).time # NoReading
                  /\ IF DeadlineAllows(Top(stack).time)
                     THEN /\ stack' = Append(SetTop(stack, [Top(stack) EXCEPT
                                                              !.time = NoReading]),
                                             UnitFrame(nextUnitOfWork, FALSE))
                          /\ UNCHANGED sched
                     ELSE /\ stack' = Pop(stack)
                          /\ Apply(RequestDeferredCallback(St))
             ELSE /\ stack' = Pop(stack)
                  /\ UNCHANGED sched
        ELSE IF LoopCondition(St, level)
             THEN /\ stack' = Append(stack, UnitFrame(nextUnitOfWork, FALSE))
                  /\ UNCHANGED sched
             ELSE /\ stack' = Pop(stack)
                  /\ Apply(MarkDeferred(WorkLoopExit(St, level), level))
  /\ UNCHANGED <<effects, useSyncScheduling, exc, events, lastHandled>>

\* ------------------------------------------------------ performUnitOfWork
\* beginWork(current, workInProgress, nextPriorityLevel): the child is cloned
\* from the current child, and is the next unit when it has work of this level.
BeginWork(t, f) ==
  IF f[2] = HostContainer
  THEN LET child == Child(f)
           u == [t EXCEPT !.pwp[child] = t.pwp[Alternate(child)]]
       IN [st |-> u,
           next |-> IF u.pwp[child] # NoWork /\ u.pwp[child] <= t.nextPriorityLevel
                    THEN child ELSE Null]
  ELSE [st |-> t, next |-> Null]

\* resetWorkPriority: the most urgent priority of the progressed children
ResetWorkPriority(t, workInProgress) ==
  LET child == Child(workInProgress)
      newPriority == IF child # Null /\ t.pwp[child] # NoWork
                     THEN t.pwp[child] ELSE NoWork
  IN [t EXCEPT !.pwp[workInProgress] = newPriority]

\* completeUnitOfWork up to commitAllWork: "commit" when the root was reached
\* and root.current replaced, "fatal" when the root is the current tree.
RECURSIVE CompleteUnitOfWork(_, _)
CompleteUnitOfWork(t, workInProgress) ==
  LET u == ResetWorkPriority(t, workInProgress)
      returnFiber == Return(workInProgress)
      root == workInProgress[1]
  IN IF returnFiber # Null
     THEN CompleteUnitOfWork(u, returnFiber)
     ELSE IF RootCurrent(u, root) = workInProgress
     THEN [st |-> u, kind |-> "fatal"]
     ELSE [st |-> [u EXCEPT !.current[root] = workInProgress[3],
                            !.deferred = @ \ {root}],
           kind |-> "commit"]

\* The caller of performUnitOfWork takes its result: a work loop assigns it
\* to nextUnitOfWork and looks for more work when it is null; the re-render
\* loop of handleErrors assigns it to its local fiber.
\* (fresh: the result came from findNextUnitOfWork)
ReturnToCaller(t, stk, next, fresh) ==
  IF Top(stk).k = "performAndHandleErrors"
  THEN IF next = Null
       THEN LET r == FindNextUnitOfWork([t EXCEPT !.nextUnitOfWork = Null])
            IN [st |-> [r.st EXCEPT !.nextUnitOfWork = r.ret, !.preempted = FALSE],
                stack |-> stk]
       ELSE [st |-> [t EXCEPT !.nextUnitOfWork = next,
                              !.preempted = IF fresh THEN FALSE ELSE @],
             stack |-> stk]
  ELSE [st |-> t, stack |-> SetTop(stk, [Top(stk) EXCEPT !.fiber = next])]

\* The end of completeUnitOfWork at the root, after commitAllWork:
\* return findNextUnitOfWork()
FinishRoot(t, stk) ==
  LET r == FindNextUnitOfWork(t)
  IN ReturnToCaller(r.st, Pop(stk), r.ret, TRUE)

FatalError == MaxEvents + 1

\* History: the root is committed during every synchronous flush and every
\* recovery from a caught error in progress
MarkCommitted(stk, root) ==
  [i \in 1 .. Len(stk) |->
     IF stk[i].k = "performSynchronousWork" \/ stk[i].pc = "caught"
     THEN [stk[i] EXCEPT !.done = @ \cup {root}] ELSE stk[i]]

\* beginWork returns: the child is next, or the unit is completed
BeginWorkReturns ==
  /\ exc = 0
  /\ stack # <<>>
  /\ Top(stack).k = "performUnitOfWork"
  /\ Top(stack).pc = "beginWork"
  /\ LET b == BeginWork(St, Top(stack).fiber)
     IN IF b.next # Null
        THEN LET c == ReturnToCaller(b.st, Pop(stack), b.next, FALSE)
             IN Apply(c.st) /\ stack' = c.stack /\ exc' = 0
        ELSE LET d == CompleteUnitOfWork(b.st, Top(stack).fiber)
             IN /\ Apply(d.st)
                /\ IF d.kind = "fatal"
                   THEN stack' = MarkRaised(stack) /\ exc' = FatalError
                   ELSE /\ stack' = MarkCommitted(
                                       SetTop(stack, [Top(stack) EXCEPT !.pc = "commitAllWork"]),
                                       Top(stack).fiber[1])
                        /\ exc' = 0
  /\ UNCHANGED <<effects, useSyncScheduling, events, lastHandled>>

\* beginWork throws
BeginWorkThrows ==
  /\ exc = 0
  /\ stack # <<>>
  /\ Top(stack).k = "performUnitOfWork"
  /\ Top(stack).pc = "beginWork"
  /\ events < MaxEvents
  /\ events' = events + 1
  /\ exc' = events + 1
  /\ stack' = MarkRaised(stack)
  /\ UNCHANGED <<sched, effects, useSyncScheduling, lastHandled>>

\* trapError(failedFiber, error): no boundary, or a boundary above the fiber
TrapBoundaries(f) == {Null} \cup (IF Return(f) # Null THEN {Return(f)} ELSE {})

HandleErrorsFrame(batch) ==
  [Frame0 EXCEPT !.k = "handleErrors", !.pc = "while", !.errs = batch]

\* The trapped errors a commit collects from commitDeletion and commitLifeCycles
TrappedBatches(f, first) ==
  {<<>>}
  \cup { <<[boundary |-> b, error |-> first]>> :
           b \in {x \in {Null, f} : first <= MaxEvents} }
  \cup { <<[boundary |-> b1, error |-> first], [boundary |-> b2, error |-> first + 1]>> :
           b1 \in {x \in {Null, f} : first + 1 <= MaxEvents}, b2 \in {Null, f} }

\* commitAllWork ends: handleErrors is called with the errors it trapped, or
\* completeUnitOfWork goes on
CommitAllWorkEnds ==
  /\ exc = 0
  /\ stack # <<>>
  /\ Top(stack).k = "performUnitOfWork"
  /\ Top(stack).pc = "commitAllWork"
  /\ \E allTrappedErrors \in TrappedBatches(Top(stack).fiber, events + 1) :
       /\ events' = events + Len(allTrappedErrors)
       /\ IF allTrappedErrors # <<>>
          THEN /\ stack' = Append(MarkRaised(SetTop(stack,
                                    [Top(stack) EXCEPT !.pc = "handleErrors"])),
                                  HandleErrorsFrame(allTrappedErrors))
               /\ UNCHANGED sched
          ELSE LET c == FinishRoot(St, stack)
               IN Apply(c.st) /\ stack' = c.stack
  /\ UNCHANGED <<effects, useSyncScheduling, exc, lastHandled>>

\* handleErrors returned to commitAllWork
CommitAllWorkReturns ==
  /\ exc = 0
  /\ stack # <<>>
  /\ Top(stack).k = "performUnitOfWork"
  /\ Top(stack).pc = "handleErrors"
  /\ LET c == FinishRoot(St, stack)
     IN Apply(c.st) /\ stack' = c.stack
  /\ UNCHANGED <<effects, useSyncScheduling, exc, events, lastHandled>>

\* ----------------------------------------------------------- handleErrors
\* scheduleErrorBoundaryWork: the priority of the boundary, of its ancestors
\* and of their alternates
RECURSIVE ScheduleErrorBoundaryWork(_, _, _)
ScheduleErrorBoundaryWork(t, fiber, priority) ==
  LET u == [t EXCEPT !.pwp[fiber] = priority, !.pwp[Alternate(fiber)] = priority]
  IN IF Return(fiber) = Null THEN u ELSE ScheduleErrorBoundaryWork(u, Return(fiber), priority)

\* firstUncaughtError = error
LastUncaughtError(firstUncaughtError, error) == error

\* firstUncaughtError = firstUncaughtError || error
FirstUncaughtError(firstUncaughtError, error) ==
  IF firstUncaughtError # 0 THEN firstUncaughtError ELSE error

\* The head of the while loop: the next batch, or the end of handleErrors,
\* which clears the registry and throws when an error was not caught
RECURSIVE Height(_)
\* The number of fibers from a boundary up to its root; none for no boundary
Height(f) == IF f = Null THEN 0 ELSE 1 + Height(Return(f))

RECURSIVE Rank(_)
\* History: the height of the highest boundary of a batch of trapped errors
Rank(batch) ==
  IF batch = <<>> THEN 0
  ELSE LET h == Height(Head(batch).boundary)
           r == Rank(Tail(batch))
       IN IF h > r THEN h ELSE r

TakeBatchKeepingNext(fr) ==
  [fr EXCEPT !.pc = "forEach", !.cur = fr.errs, !.aff = <<>>, !.rank = Rank(fr.errs)]

\* const trappedErrors = nextTrappedErrors; nextTrappedErrors = null;
\* affectedBoundaries = new Set()
TakeBatch(fr) ==
  [fr EXCEPT !.pc = "forEach", !.cur = fr.errs, !.errs = <<>>, !.aff = <<>>,
             !.rank = Rank(fr.errs)]

HandleErrorsWhile ==
  /\ exc = 0
  /\ stack # <<>>
  /\ Top(stack).k = "handleErrors"
  /\ Top(stack).pc = "while"
  /\ LET fr == Top(stack)
     IN IF fr.errs # <<>>
        THEN /\ stack' = SetTop(stack, TakeBatch(fr))
             /\ UNCHANGED <<sched, exc>>
             /\ UNCHANGED lastHandled
        ELSE /\ stack' = Pop(stack)
             /\ lastHandled' = fr.log
             /\ IF fr.fue # 0
                THEN /\ Apply([St EXCEPT !.nextScheduledRoot = NoRoot,
                                         !.lastScheduledRoot = NoRoot])
                     /\ exc' = fr.fue
                ELSE UNCHANGED <<sched, exc>>
  /\ UNCHANGED <<effects, useSyncScheduling, events>>

InSeq(x, sq) == \E i \in 1 .. Len(sq) : sq[i] = x

\* One trapped error of the batch: it is uncaught, or its boundary was
\* acknowledged already, or the boundary acknowledges it, or that throws
HandleErrorsForEach ==
  /\ exc = 0
  /\ stack # <<>>
  /\ Top(stack).k = "handleErrors"
  /\ Top(stack).pc = "forEach"
  /\ LET fr == Top(stack)
     IN IF fr.cur = <<>>
        THEN /\ stack' = SetTop(stack, [fr EXCEPT !.pc = "recover", !.todo = fr.aff])
             /\ UNCHANGED events
        ELSE LET trappedError == Head(fr.cur)
                 boundary == trappedError.boundary
                 rest == [fr EXCEPT !.cur = Tail(fr.cur), !.log = Append(@, trappedError)]
             IN IF boundary = Null
                THEN /\ stack' = SetTop(stack,
                          [rest EXCEPT !.fue = FirstUncaughtError(fr.fue, trappedError.error)])
                     /\ UNCHANGED events
                ELSE IF InSeq(boundary, fr.aff)
                THEN /\ stack' = SetTop(stack, rest)
                     /\ UNCHANGED events
                ELSE \/ /\ stack' = SetTop(stack, [rest EXCEPT !.aff = Append(fr.aff, boundary)])
                        /\ UNCHANGED events
                     \/ /\ events < MaxEvents
                        /\ events' = events + 1
                        /\ \E b \in TrapBoundaries(boundary) :
                             stack' = MarkRaised(SetTop(stack, [rest EXCEPT !.errs =
                               Append(fr.errs, [boundary |-> b, error |-> events + 1])]))
  /\ UNCHANGED <<sched, effects, useSyncScheduling, exc, lastHandled>>

\* The next affected boundary: its work is scheduled at priorityContext and
\* its root cloned; or all are done and the while loop goes on
HandleErrorsRecover ==
  /\ exc = 0
  /\ stack # <<>>
  /\ Top(stack).k = "handleErrors"
  /\ Top(stack).pc = "recover"
  /\ LET fr == Top(stack)
     IN IF fr.todo = <<>>
        THEN /\ stack' = SetTop(stack, [fr EXCEPT !.pc = "while"])
             /\ UNCHANGED sched
        ELSE LET boundary == Head(fr.todo)
                 priority == priorityContext
                 u == ScheduleErrorBoundaryWork(St, boundary, priority)
                 c == CloneFiber(u, RootCurrent(u, boundary[1]), priority)
             IN /\ Apply(c.st)
                /\ stack' = SetTop(stack, [fr EXCEPT !.pc = "render", !.todo = Tail(fr.todo),
                                                     !.boundary = boundary, !.fiber = c.ret])
  /\ UNCHANGED <<effects, useSyncScheduling, exc, events, lastHandled>>

\* while (fiber) fiber = performUnitOfWork(fiber, true)
HandleErrorsRender ==
  /\ exc = 0
  /\ stack # <<>>
  /\ Top(stack).k = "handleErrors"
  /\ Top(stack).pc = "render"
  /\ LET fr == Top(stack)
     IN IF fr.fiber # Null
        THEN stack' = Append(stack, UnitFrame(fr.fiber, TRUE))
        ELSE stack' = SetTop(stack, [fr EXCEPT !.pc = "recover"])
  /\ UNCHANGED <<sched, effects, useSyncScheduling, exc, events, lastHandled>>

\* ------------------------------------------------------- returns, errors
\* performAndHandleErrors returned to performSynchronousWork: the finally block
PerformSynchronousWorkReturns ==
  /\ exc = 0
  /\ stack # <<>>
  /\ Top(stack).k = "performSynchronousWork"
  /\ Apply([St EXCEPT !.shouldBatchUpdates = Top(stack).prevB])
  /\ stack' = Pop(stack)
  /\ UNCHANGED <<effects, useSyncScheduling, exc, events, lastHandled>>

\* performSynchronousWork returned to the finally block of batchedUpdates,
\* which ends; the error of fn, if any, goes on
BatchedUpdatesReturns ==
  /\ exc = 0
  /\ stack # <<>>
  /\ Top(stack).k = "batchedUpdates"
  /\ Top(stack).pc = "flush"
  /\ exc' = Top(stack).pend
  /\ stack' = Pop(stack)
  /\ UNCHANGED <<sched, effects, useSyncScheduling, events, lastHandled>>

\* handleErrors returned to the catch block of performAndHandleErrors
PerformAndHandleErrorsReturns ==
  /\ exc = 0
  /\ stack # <<>>
  /\ Top(stack).k = "performAndHandleErrors"
  /\ Top(stack).pc = "caught"
  /\ stack' = Pop(stack)
  /\ UNCHANGED <<sched, effects, useSyncScheduling, exc, events, lastHandled>>

\* An error reaches the top frame: its finally or catch block runs, or the
\* frame is left.  With no frame left the error has reached the host.
Unwind ==
  /\ exc # 0
  /\ IF stack = <<>>
     THEN /\ exc' = 0
          /\ UNCHANGED <<sched, stack>>
     ELSE LET fr == Top(stack)
          IN IF fr.k \in {"performWithPriority", "syncUpdates"}
             THEN /\ Apply(RestorePriorityContext(St, fr))
                  /\ stack' = Pop(stack)
                  /\ UNCHANGED exc
             ELSE IF fr.k = "batchedUpdates" /\ fr.pc = "fn"
             THEN LET c == ExitBatchedUpdates(St, stack, exc)
                  IN Apply(c.st) /\ stack' = c.stack /\ exc' = c.exc
             ELSE IF fr.k = "performSynchronousWork"
             THEN /\ Apply([St EXCEPT !.shouldBatchUpdates = fr.prevB])
                  /\ stack' = Pop(stack)
                  /\ UNCHANGED exc
             ELSE IF fr.k = "performAndHandleErrors" /\ fr.pc = "loop"
             THEN LET failedUnitOfWork == nextUnitOfWork
                  IN /\ Apply([St EXCEPT !.nextUnitOfWork = Null, !.preempted = FALSE])
                     /\ IF failedUnitOfWork = Null
                        THEN stack' = Pop(stack) /\ UNCHANGED exc
                        ELSE /\ exc' = 0
                             /\ \E b \in TrapBoundaries(failedUnitOfWork) :
                                  stack' = Append(SetTop(stack, [fr EXCEPT !.pc = "caught", !.boundary = b,
                                                   !.done = {}, !.clean = TRUE]),
                                    HandleErrorsFrame(<<[boundary |-> b, error |-> exc]>>))
             ELSE IF fr.k = "handleErrors" /\ fr.pc = "render"
             THEN /\ exc' = 0
                  /\ UNCHANGED sched
                  /\ \E b \in TrapBoundaries(fr.boundary) :
                       stack' = SetTop(stack, [fr EXCEPT !.pc = "recover", !.errs =
                                  Append(fr.errs, [boundary |-> b, error |-> exc])])
             ELSE /\ stack' = Pop(stack)
                  /\ UNCHANGED <<sched, exc>>
  /\ UNCHANGED <<effects, useSyncScheduling, events, lastHandled>>

\* ------------------------------------------------------- the effect lists
\* The fibers of the work-in-progress tree; fiber 1 is the root
MaxFibers == 4
FiberIds == 1 .. MaxFibers
RootFiber == 1
NoFiber == 0

\* ReactTypeOfSideEffect: a bitset over Placement, Update, Deletion, Callback
NoEffect == 0
Placement == 1
Update == 2
PlacementAndUpdate == 3
Deletion == 4
Callback == 8
PlacementAndCallback == 9
UpdateAndCallback == 10
PlacementAndUpdateAndCallback == 11
DeletionAndCallback == 12

EffectTags ==
  { NoEffect, Placement, Update, PlacementAndUpdate, Deletion, Callback,
    PlacementAndCallback, UpdateAndCallback, PlacementAndUpdateAndCallback,
    DeletionAndCallback }

\* a & b and a | b on the bits
RECURSIVE BitAnd(_, _)
BitAnd(a, b) ==
  IF a = 0 \/ b = 0 THEN 0
  ELSE (a % 2) * (b % 2) + 2 * BitAnd(a \div 2, b \div 2)

RECURSIVE BitOr(_, _)
BitOr(a, b) ==
  IF a = 0 THEN b
  ELSE IF b = 0 THEN a
  ELSE (IF a % 2 = 1 \/ b % 2 = 1 THEN 1 ELSE 0) + 2 * BitOr(a \div 2, b \div 2)

\* fiber.child and fiber.sibling: the children of a fiber in increasing order
FiberChild(f) ==
  IF \E c \in FiberIds : fiberReturn[c] = f
  THEN CHOOSE c \in FiberIds :
         fiberReturn[c] = f /\ \A d \in FiberIds : fiberReturn[d] = f => c <= d
  ELSE NoFiber

FiberSibling(f) ==
  IF \E c \in FiberIds : c > f /\ fiberReturn[c] = fiberReturn[f]
  THEN CHOOSE c \in FiberIds :
         /\ c > f /\ fiberReturn[c] = fiberReturn[f]
         /\ \A d \in FiberIds : d > f /\ fiberReturn[d] = fiberReturn[f] => c <= d
  ELSE NoFiber

\* The fields of the fibers that completeUnitOfWork writes
Fx ==
  [ firstEffect |-> firstEffect, lastEffect |-> lastEffect, nextEffect |-> nextEffect,
    completed |-> completed, workPriority |-> workPriority,
    pendingProps |-> pendingProps, updateQueue |-> updateQueue ]

\* The fiber's own effect first, the effects of its subtree after it
AppendEffectsSelfFirst(e, wip, returnFiber) ==
  LET a == IF effectTag[wip] # NoEffect
           THEN IF e.lastEffect[returnFiber] # NoFiber
                THEN [e EXCEPT !.nextEffect[e.lastEffect[returnFiber]] = wip,
                               !.lastEffect[returnFiber] = wip]
                ELSE [e EXCEPT !.firstEffect[returnFiber] = wip,
                               !.lastEffect[returnFiber] = wip]
           ELSE e
       b == IF a.firstEffect[returnFiber] = NoFiber
            THEN [a EXCEPT !.firstEffect[returnFiber] = a.firstEffect[wip]]
            ELSE a
   IN IF b.lastEffect[wip] # NoFiber
      THEN LET c == IF b.lastEffect[returnFiber] # NoFiber
                    THEN [b EXCEPT !.nextEffect[b.lastEffect[returnFiber]] =
                                      b.firstEffect[wip]]
                    ELSE b
           IN [c EXCEPT !.lastEffect[returnFiber] = c.lastEffect[wip]]
      ELSE b

\* Append the effects of the subtree and of the fiber to the list of the parent
AppendEffects(e, wip, returnFiber) ==
  LET a == IF e.firstEffect[returnFiber] = NoFiber
           THEN [e EXCEPT !.firstEffect[returnFiber] = e.firstEffect[wip]]
           ELSE e
      b == IF a.lastEffect[wip] # NoFiber
           THEN LET c == IF a.lastEffect[returnFiber] # NoFiber
                         THEN [a EXCEPT !.nextEffect[a.lastEffect[returnFiber]] =
                                           a.firstEffect[wip]]
                         ELSE a
                IN [c EXCEPT !.lastEffect[returnFiber] = c.lastEffect[wip]]
           ELSE a
  IN IF effectTag[wip] # NoEffect
     THEN IF b.lastEffect[returnFiber] # NoFiber
          THEN [b EXCEPT !.nextEffect[b.lastEffect[returnFiber]] = wip,
                         !.lastEffect[returnFiber] = wip]
          ELSE [b EXCEPT !.firstEffect[returnFiber] = wip,
                         !.lastEffect[returnFiber] = wip]
     ELSE b

\* resetWorkPriority on the tree: the most urgent pending work of the children
RECURSIVE MostUrgentFrom(_, _, _)
MostUrgentFrom(e, child, newPriority) ==
  IF child = NoFiber
  THEN newPriority
  ELSE MostUrgentFrom(e, FiberSibling(child),
         IF /\ e.workPriority[child] # NoWork
            /\ (newPriority = NoWork \/ newPriority > e.workPriority[child])
         THEN e.workPriority[child] ELSE newPriority)

ResetTreePriority(e, wip) ==
  [e EXCEPT !.workPriority[wip] = MostUrgentFrom(e, FiberChild(wip), NoWork)]

\* The statements of one turn of the loop of completeUnitOfWork between the
\* call of completeWork and the test of what it returned
CompleteStatements(e, wip) ==
  LET returnFiber == fiberReturn[wip]
      r == ResetTreePriority([e EXCEPT !.completed = Append(@, wip)], wip)
      d == [r EXCEPT !.pendingProps[wip] = FALSE, !.updateQueue[wip] = FALSE]
  IN IF returnFiber # NoFiber THEN AppendEffects(d, wip, returnFiber) ELSE d

\* The loop of completeUnitOfWork when completeWork spawns no work: the next
\* unit of the pass, or none when the root is complete
RECURSIVE CompleteFiber(_, _)
CompleteFiber(e, wip) ==
  LET returnFiber == fiberReturn[wip]
      a == CompleteStatements(e, wip)
  IN IF FiberSibling(wip) # NoFiber
     THEN [fx |-> a, next |-> FiberSibling(wip)]
     ELSE IF returnFiber # NoFiber
     THEN CompleteFiber(a, returnFiber)
     ELSE [fx |-> a, next |-> NoFiber]

\* The effect list of a fiber: from firstEffect along nextEffect to lastEffect
RECURSIVE EffectListFrom(_, _, _, _)
EffectListFrom(e, f, last, n) ==
  IF f = NoFiber \/ n = 0 THEN <<>>
  ELSE IF f = last THEN <<f>>
  ELSE <<f>> \o EffectListFrom(e, e.nextEffect[f], last, n - 1)

EffectList(e, f) == EffectListFrom(e, e.firstEffect[f], e.lastEffect[f], MaxFibers + 1)

\* performUnitOfWork on the tree: beginWork gives the child or bails out, and
\* without a child the unit is completed; when the root is complete
\* commitAllWork is called with it
PerformTreeUnit ==
  /\ phase = "render"
  /\ nextUnit # NoFiber
  /\ \E bailout \in BOOLEAN :
       LET next == IF bailout THEN NoFiber ELSE FiberChild(nextUnit)
       IN IF next # NoFiber
          THEN /\ nextUnit' = next
               /\ UNCHANGED <<firstEffect, lastEffect, nextEffect, completed, phase,
                              effectfulFiber, startTag, startList, workPriority,
                              pendingProps, updateQueue>>
          ELSE LET c == CompleteFiber(Fx, nextUnit)
               IN /\ firstEffect' = c.fx.firstEffect
                  /\ lastEffect' = c.fx.lastEffect
                  /\ nextEffect' = c.fx.nextEffect
                  /\ completed' = c.fx.completed
                  /\ workPriority' = c.fx.workPriority
                  /\ pendingProps' = c.fx.pendingProps
                  /\ updateQueue' = c.fx.updateQueue
                  /\ nextUnit' = c.next
                  /\ IF c.next # NoFiber
                     THEN UNCHANGED <<phase, effectfulFiber, startTag, startList>>
                     ELSE /\ phase' = "mutation"
                          /\ effectfulFiber' = c.fx.firstEffect[RootFiber]
                          /\ startTag' = effectTag
                          /\ startList' = EffectList(c.fx, RootFiber)
  /\ UNCHANGED <<scheduler, fiberReturn, effectTag, calls>>

\* performUnitOfWork on the tree when beginWork gives no child and
\* completeWork spawns work, a child of the unit: completeUnitOfWork returns
\* it after the statements of its first turn
CompleteWorkSpawns ==
  /\ phase = "render"
  /\ nextUnit # NoFiber
  /\ \A i \in 1 .. Len(completed) : completed[i] # nextUnit
  /\ LET next == FiberChild(nextUnit)
         a == CompleteStatements(Fx, nextUnit)
     IN /\ next # NoFiber
        /\ firstEffect' = a.firstEffect
        /\ lastEffect' = a.lastEffect
        /\ nextEffect' = a.nextEffect
        /\ completed' = a.completed
        /\ workPriority' = a.workPriority
        /\ pendingProps' = a.pendingProps
        /\ updateQueue' = a.updateQueue
        /\ nextUnit' = next
  /\ UNCHANGED <<scheduler, fiberReturn, effectTag, calls, phase, effectfulFiber,
                 startTag, startList>>

Call(op, f) == [op |-> op, fiber |-> f]

\* One pass: the life-cycles of a fiber right after its mutation
MutationWithLifeCycles(tag, f) ==
  IF tag \in {Placement, PlacementAndCallback}
  THEN [calls |-> <<Call("commitInsertion", f)>>, tag |-> NoEffect]
  ELSE IF tag \in {PlacementAndUpdate, PlacementAndUpdateAndCallback}
  THEN [calls |-> <<Call("commitInsertion", f), Call("commitWork", f),
                    Call("commitLifeCycles", f)>>, tag |-> NoEffect]
  ELSE IF tag \in {Update, UpdateAndCallback}
  THEN [calls |-> <<Call("commitWork", f), Call("commitLifeCycles", f)>>,
        tag |-> NoEffect]
  ELSE IF tag \in {Deletion, DeletionAndCallback}
  THEN [calls |-> <<Call("commitDeletion", f)>>, tag |-> tag]
  ELSE [calls |-> <<>>, tag |-> tag]

\* The switch of the first pass: the calls it makes for a fiber and the
\* effectTag it leaves
Mutation(tag, f) ==
  IF tag \in {Placement, PlacementAndCallback}
  THEN [calls |-> <<Call("commitInsertion", f)>>, tag |-> NoEffect]
  ELSE IF tag \in {PlacementAndUpdate, PlacementAndUpdateAndCallback}
  THEN [calls |-> <<Call("commitInsertion", f), Call("commitWork", f)>>, tag |-> Update]
  ELSE IF tag \in {Update, UpdateAndCallback}
  THEN [calls |-> <<Call("commitWork", f)>>, tag |-> tag]
  ELSE IF tag \in {Deletion, DeletionAndCallback}
  THEN [calls |-> <<Call("commitDeletion", f)>>, tag |-> tag]
  ELSE [calls |-> <<>>, tag |-> tag]

\* The calls of the first loop of commitAllWork that are followed: two for
\* each fiber below the root are more than a loop over a list without a
\* cycle makes before its last fiber
MaxCalls == 2 * (MaxFibers - 1)

\* One test of the first loop of commitAllWork, with its body
MutationPass ==
  /\ phase = "mutation"
  /\ IF effectfulFiber # NoFiber
     THEN LET m == Mutation(effectTag[effectfulFiber], effectfulFiber)
          IN /\ Len(calls) <= MaxCalls
             /\ calls' = calls \o m.calls
             /\ effectTag' = [effectTag EXCEPT ![effectfulFiber] = m.tag]
             /\ effectfulFiber' = nextEffect[effectfulFiber]
             /\ UNCHANGED phase
     ELSE /\ phase' = "lifeCycles"
          /\ effectfulFiber' = firstEffect[RootFiber]
          /\ UNCHANGED <<calls, effectTag>>
  /\ UNCHANGED <<scheduler, fiberReturn, firstEffect, lastEffect, nextEffect,
                 nextUnit, completed, startTag, startList, workPriority,
                 pendingProps, updateQueue>>

\* One test of the second loop of commitAllWork, with its body
LifeCyclePass ==
  /\ phase = "lifeCycles"
  /\ IF effectfulFiber # NoFiber
     THEN /\ calls' = IF BitAnd(effectTag[effectfulFiber], BitOr(Update, Callback)) # 0
                      THEN Append(calls, Call("commitLifeCycles", effectfulFiber))
                      ELSE calls
          /\ nextEffect' = [nextEffect EXCEPT ![effectfulFiber] = NoFiber]
          /\ effectfulFiber' = nextEffect[effectfulFiber]
          /\ UNCHANGED phase
     ELSE /\ phase' = "root"
          /\ UNCHANGED <<calls, nextEffect, effectfulFiber>>
  /\ UNCHANGED <<scheduler, fiberReturn, effectTag, firstEffect, lastEffect,
                 nextUnit, completed, startTag, startList, workPriority,
                 pendingProps, updateQueue>>

\* The effect of the root itself, which is not in the effect list
CommitRoot ==
  /\ phase = "root"
  /\ calls' = IF effectTag[RootFiber] # NoEffect
              THEN calls \o <<Call("commitWork", RootFiber),
                              Call("commitLifeCycles", RootFiber)>>
              ELSE calls
  /\ phase' = "done"
  /\ UNCHANGED <<scheduler, fiberReturn, effectTag, firstEffect, lastEffect, nextEffect,
                 nextUnit, effectfulFiber, completed, startTag, startList,
                 workPriority, pendingProps, updateQueue>>

\* No tree: the scheduler is modelled with its two-level trees
NoTree ==
  /\ fiberReturn = [f \in FiberIds |-> NoFiber]
  /\ effectTag = [f \in FiberIds |-> NoEffect]
  /\ firstEffect = [f \in FiberIds |-> NoFiber]
  /\ lastEffect = [f \in FiberIds |-> NoFiber]
  /\ nextEffect = [f \in FiberIds |-> NoFiber]
  /\ nextUnit = NoFiber
  /\ phase = "idle"
  /\ effectfulFiber = NoFiber
  /\ completed = <<>>
  /\ calls = <<>>
  /\ startTag = <<>>
  /\ startList = <<>>
  /\ workPriority = [f \in FiberIds |-> NoWork]
  /\ pendingProps = [f \in FiberIds |-> FALSE]
  /\ updateQueue = [f \in FiberIds |-> FALSE]

\* A work-in-progress tree with empty effect lists whose pass starts at the root
\* The pending work the pass starts with: the fibers with an update have
\* animation work, the others low priority work
TreePriority(f) == IF effectTag[f] # NoEffect THEN AnimationPriority ELSE LowPriority

TreeInit ==
  /\ fiberReturn \in {r \in [FiberIds -> 0 .. MaxFibers] :
                        /\ r[RootFiber] = NoFiber
                        /\ \A f \in FiberIds \ {RootFiber} : r[f] \in 1 .. f - 1}
  /\ effectTag \in [FiberIds -> EffectTags]
  /\ firstEffect = [f \in FiberIds |-> NoFiber]
  /\ lastEffect = [f \in FiberIds |-> NoFiber]
  /\ nextEffect = [f \in FiberIds |-> NoFiber]
  /\ nextUnit = RootFiber
  /\ phase = "render"
  /\ effectfulFiber = NoFiber
  /\ completed = <<>>
  /\ calls = <<>>
  /\ startTag = <<>>
  /\ startList = <<>>
  /\ workPriority = [f \in FiberIds |-> TreePriority(f)]
  /\ pendingProps = [f \in FiberIds |-> TRUE]
  /\ updateQueue = [f \in FiberIds |-> TRUE]

\* ---------------------------------------------------------- specification
SchedulerInit ==
  /\ priorityContext = IF useSyncScheduling THEN SynchronousPriority ELSE LowPriority
  /\ shouldBatchUpdates = FALSE
  /\ nextUnitOfWork = Null
  /\ nextPriorityLevel = NoWork
  /\ nextScheduledRoot = NoRoot
  /\ lastScheduledRoot = NoRoot
  /\ isAnimationCallbackScheduled = FALSE
  /\ isDeferredCallbackScheduled = FALSE
  /\ isScheduled = [r \in Roots |-> FALSE]
  /\ rootNext = [r \in Roots |-> NoRoot]
  /\ current = [r \in Roots |-> 0]
  /\ pendingWorkPriority = [f \in Fibers |-> NoWork]
  /\ hostAnimation = 0
  /\ hostDeferred = 0
  /\ stack = <<>>
  /\ exc = 0
  /\ events = 0
  /\ preempted = FALSE
  /\ deferred = {}
  /\ lastHandled = <<>>

Init ==
  /\ useSyncScheduling \in BOOLEAN
  /\ SchedulerInit
  /\ NoTree

Next ==
  \/ \E root \in Roots : CallScheduleWork(root)
  \/ \E root \in Roots, priority \in WorkPriorities : CallScheduleDeferredWork(root, priority)
  \/ \E fiber \in Fibers : fiber[3] = 0 /\ CallScheduleUpdate(fiber)
  \/ \E priorityLevel \in Priorities : EnterPerformWithPriority(priorityLevel)
  \/ EnterSyncUpdates
  \/ EnterBatchedUpdates
  \/ FnReturn
  \/ FnThrow
  \/ FireAnimationCallback
  \/ FireDeferredCallback
  \/ DeadlineTimeRemaining
  \/ WorkLoopStep
  \/ BeginWorkReturns
  \/ BeginWorkThrows
  \/ CommitAllWorkEnds
  \/ CommitAllWorkReturns
  \/ HandleErrorsWhile
  \/ HandleErrorsForEach
  \/ HandleErrorsRecover
  \/ HandleErrorsRender
  \/ PerformSynchronousWorkReturns
  \/ BatchedUpdatesReturns
  \/ PerformAndHandleErrorsReturns
  \/ Unwind

Spec == Init /\ [][Next]_vars

\* One pass over a tree and its commit
EffectInit ==
  /\ useSyncScheduling = FALSE
  /\ SchedulerInit
  /\ TreeInit

EffectNext ==
  \/ PerformTreeUnit
  \/ CompleteWorkSpawns
  \/ MutationPass
  \/ LifeCyclePass
  \/ CommitRoot

EffectSpec == EffectInit /\ [][EffectNext]_vars

\* ------------------------------------------------------------ properties
\* The registry: the roots reached from nextScheduledRoot
Registry == Chain(St)

\* The priorities of the work that the registered roots still have
Remaining == {pendingWorkPriority[RootCurrent(St, r)] : r \in Registry} \ {NoWork}

\* A step that is a scheduling call of user code at the given priority
ScheduleWorkAt(root, priority) ==
  \/ priority = priorityContext /\ CallScheduleWork(root)
  \/ priority = priorityContext /\ \E fiber \in Fibers : fiber[1] = root /\ CallScheduleUpdate(fiber)
  \/ CallScheduleDeferredWork(root, priority)

\* The step called performSynchronousWork
Flushed ==
  /\ Len(stack') = Len(stack) + 2
  /\ stack'[Len(stack) + 1].k = "performSynchronousWork"

\* C1: at most one animation callback and at most one deferred callback are
\* registered with the host and not yet fired, and the flags say which
C1_OneCallbackOfEachKind ==
  /\ hostAnimation = (IF isAnimationCallbackScheduled THEN 1 ELSE 0)
  /\ hostDeferred = (IF isDeferredCallbackScheduled THEN 1 ELSE 0)

\* Both callbacks are registered between two callbacks of the host, the
\* deferred one by a work loop that ran out of time with a tree in progress
C1_Witness ==
  /\ stack = <<>>
  /\ exc = 0
  /\ nextUnitOfWork # Null
  /\ nextPriorityLevel = LowPriority
  /\ hostAnimation = 1
  /\ hostDeferred = 1

\* C2: a scheduling call at a priority p <= nextPriorityLevel, made while there
\* is a unit of work in progress, leaves nextUnitOfWork null when it returns
C2_SchedulingResetsUnitOfWork ==
  [][\A root \in Roots, p \in WorkPriorities :
       /\ ScheduleWorkAt(root, p)
       /\ stack' = stack
       /\ nextUnitOfWork # Null
       /\ p <= nextPriorityLevel
       => nextUnitOfWork' = Null]_vars

\* C3: once work more urgent than nextPriorityLevel was scheduled, a work loop
\* performs no unit of the less urgent tree that was in progress: the next
\* unit it starts comes from findNextUnitOfWork
C3_PreemptionAtUnitBoundary ==
  [][/\ Len(stack') = Len(stack) + 1
     /\ Top(stack').k = "performUnitOfWork"
     /\ ~Top(stack').ignore
     => ~preempted']_vars

\* The last handleErrors to end met an error that no boundary took
UncaughtSurfaced == \E i \in 1 .. Len(lastHandled) : lastHandled[i].boundary = Null

\* C4: after handleErrors surfaced an uncaught error, a root that scheduleWork
\* schedules is a member of the registry
C4_ScheduleWorkAfterUncaughtError ==
  [][\A root \in Roots :
       /\ UncaughtSurfaced
       /\ priorityContext # NoWork
       /\ CallScheduleWork(root)
       => root \in Registry']_vars

\* A step of the scheduling calls that the claims name, and of the error
\* pipeline's scheduleErrorBoundaryWork
SchedulingOperation ==
  \/ /\ stack' = stack
     /\ \E root \in Roots, p \in WorkPriorities : ScheduleWorkAt(root, p)
  \/ /\ HandleErrorsRecover
     /\ Top(stack).todo # <<>>

\* C6: no scheduling call and no scheduling of boundary work by the error
\* pipeline changes a fiber's pendingWorkPriority from p to a less urgent
\* level of work
C6_PriorityMonotonicity ==
  [][SchedulingOperation =>
       \A f \in Fibers :
         /\ pendingWorkPriority[f] # NoWork
         /\ pendingWorkPriority'[f] # NoWork
         => pendingWorkPriority'[f] <= pendingWorkPriority[f]]_vars

\* handleErrors is at its end: no batch of trapped errors is left
HandleErrorsEnds ==
  /\ exc = 0
  /\ stack # <<>>
  /\ Top(stack).k = "handleErrors"
  /\ Top(stack).pc = "while"
  /\ Top(stack).errs = <<>>

HasNoBoundary(trappedError) == trappedError.boundary = Null

\* C5: handleErrors ends only when no boundary is left to visit or re-render;
\* if a trapped error it visited had no boundary it then clears
\* nextScheduledRoot and lastScheduledRoot and throws the first such error,
\* and otherwise it returns and leaves the registry as it is
C5_HandleErrorsOutcome ==
  [][HandleErrorsEnds =>
       LET uncaught == SelectSeq(Top(stack).log, HasNoBoundary)
       IN /\ Top(stack).cur = <<>>
          /\ Top(stack).todo = <<>>
          /\ stack' = Pop(stack)
          /\ IF uncaught # <<>>
             THEN /\ exc' = uncaught[1].error
                  /\ nextScheduledRoot' = NoRoot
                  /\ lastScheduledRoot' = NoRoot
             ELSE /\ exc' = 0
                  /\ UNCHANGED <<nextScheduledRoot, lastScheduledRoot, rootNext, isScheduled>>]_vars

\* handleErrors visited two errors without a boundary, threw the first, and
\* cleared the registry with a root still flagged as scheduled
C5_Witness ==
  /\ Len(lastHandled) >= 2
  /\ lastHandled[1].boundary = Null
  /\ lastHandled[2].boundary = Null
  /\ exc = lastHandled[1].error
  /\ nextScheduledRoot = NoRoot
  /\ lastScheduledRoot = NoRoot

\* A step that is a scheduling call of user code for the root at
\* SynchronousPriority
ScheduleSynchronously(root) ==
  /\ priorityContext = SynchronousPriority
  /\ \/ CallScheduleWork(root)
     \/ \E fiber \in Fibers : fiber[1] = root /\ CallScheduleUpdate(fiber)

\* C7: a call that schedules a root at SynchronousPriority calls
\* performSynchronousWork if and only if the registry was empty, the root was
\* not scheduled and shouldBatchUpdates is false; otherwise it returns
\* without a unit of work performed
C7_SynchronousFlushCondition ==
  [][\A root \in Roots :
       ScheduleSynchronously(root) =>
         IF Registry = {} /\ ~isScheduled[root] /\ ~shouldBatchUpdates
         THEN Flushed
         ELSE /\ stack' = stack
              /\ current' = current
              /\ nextUnitOfWork' = nextUnitOfWork]_vars

\* The first scheduling call of a run started a synchronous flush
C7_Witness ==
  /\ events = 1
  /\ Len(stack) = 2
  /\ stack[1].k = "performSynchronousWork"
  /\ stack[2].k = "performAndHandleErrors"
  /\ nextUnitOfWork # Null
  /\ nextPriorityLevel = SynchronousPriority

\* fn of a batchedUpdates scope is running in the i-th frame
BatchedScope(i) == stack[i].k = "batchedUpdates" /\ stack[i].pc = "fn"

InBatchedScope == \E i \in 1 .. Len(stack) : BatchedScope(i)

\* The top frame is a batchedUpdates scope with no batchedUpdates scope around it
OutermostBatchedScope ==
  /\ stack # <<>>
  /\ BatchedScope(Len(stack))
  /\ \A i \in 1 .. Len(stack) - 1 : ~BatchedScope(i)

\* A synchronous flush is in progress in a frame below the top
InSynchronousFlush ==
  \E i \in 1 .. Len(stack) - 1 : stack[i].k = "performSynchronousWork"

\* The step that leaves fn of the batchedUpdates scope of the top frame
BatchedScopeExit ==
  /\ stack # <<>>
  /\ BatchedScope(Len(stack))
  /\ FnReturn \/ Unwind

\* What C8 says of scheduling calls, of nested scopes and of the flag
BatchingRules ==
  /\ \A root \in Roots, p \in WorkPriorities :
       ScheduleWorkAt(root, p) /\ InBatchedScope => stack' = stack /\ current' = current
  /\ EnterBatchedUpdates /\ InBatchedScope => UNCHANGED sched
  /\ BatchedScopeExit /\ ~OutermostBatchedScope =>
       /\ UNCHANGED <<sched, exc>>
       /\ stack' = Pop(stack)
  /\ /\ stack # <<>>
     /\ Top(stack).k = "batchedUpdates"
     /\ Len(stack') < Len(stack)
     => shouldBatchUpdates' = Top(stack).prevB

\* C8 (as stated): inside a batchedUpdates scope scheduling calls perform no
\* work; synchronous work is performed once, when the outermost batchedUpdates
\* scope exits by return or throw, and not when a nested scope exits; entering
\* and leaving a nested scope changes nothing of the scheduler's state; the
\* flag is restored on exit
C8_Batching ==
  [][/\ BatchingRules
     /\ BatchedScopeExit => (Flushed <=> OutermostBatchedScope)]_vars

\* C8 (amended): as C8, but the exit of the outermost batchedUpdates scope
\* performs synchronous work only when the scope was not entered during a
\* synchronous flush; inside a flush the flush itself performs the work
C8_BatchingOutsideFlush ==
  [][/\ BatchingRules
     /\ BatchedScopeExit => (Flushed <=> OutermostBatchedScope /\ ~InSynchronousFlush)]_vars

\* The flush at the exit of a batchedUpdates scope committed the root that
\* was scheduled in it and has returned
C8_Witness ==
  /\ Len(stack) = 1
  /\ stack[1].k = "batchedUpdates"
  /\ stack[1].pc = "flush"
  /\ ~shouldBatchUpdates
  /\ events = 2
  /\ \E r \in Roots : current[r] = 1

\* The priority that the innermost priority scope in progress set, or the
\* initial one
RECURSIVE ScopedPriority(_)
ScopedPriority(stk) ==
  IF stk = <<>>
  THEN IF useSyncScheduling THEN SynchronousPriority ELSE LowPriority
  ELSE IF Top(stk).k \in {"performWithPriority", "syncUpdates"}
  THEN Top(stk).level
  ELSE ScopedPriority(Pop(stk))

\* C9: priorityContext is the priority of the innermost performWithPriority or
\* syncUpdates scope in progress (SynchronousPriority for syncUpdates), and
\* the value from before the scopes once they have ended, by return or throw
C9_ScopedPriorityContext == priorityContext = ScopedPriority(stack)

\* The error thrown in the inner of two nested scopes has left the inner scope
C9_Witness ==
  /\ events = 3
  /\ exc = 3
  /\ Len(stack) = 1
  /\ stack[1].k = "performWithPriority"
  /\ stack[1].level = AnimationPriority
  /\ priorityContext = AnimationPriority

\* performSynchronousWork returns normally
SynchronousFlushReturns ==
  /\ exc = 0
  /\ stack # <<>>
  /\ Top(stack).k = "performSynchronousWork"

\* The loop of performSynchronousWorkUnsafe ends
SynchronousLoopEnds ==
  /\ exc = 0
  /\ stack # <<>>
  /\ Top(stack).k = "performAndHandleErrors"
  /\ Top(stack).pc = "loop"
  /\ Top(stack).level = SynchronousPriority
  /\ WorkLoopStep
  /\ Len(stack') < Len(stack)

\* The most urgent of a non-empty set of priorities
MostUrgent(ps) == CHOOSE p \in ps : \A q \in ps : p <= q

\* C10: when performSynchronousWork returns normally the roots that had
\* synchronous work are committed and no registered root has synchronous work;
\* for the work that remains an animation callback is outstanding when it is
\* of AnimationPriority or more urgent and a deferred callback otherwise; the
\* end of the loop registers no callback when no work remains
C10_SynchronousFlush ==
  [][/\ SynchronousFlushReturns =>
          /\ Top(stack).pending \subseteq Top(stack).done
          /\ SynchronousPriority \notin Remaining
          /\ Remaining # {} =>
               IF MostUrgent(Remaining) <= AnimationPriority
               THEN hostAnimation = 1
               ELSE hostDeferred = 1
     /\ SynchronousLoopEnds /\ Remaining = {} =>
          UNCHANGED <<hostAnimation, hostDeferred>>]_vars

\* syncUpdates(() => scheduleUpdate(rootFiber)) with an empty registry and
\* batching off: the commit is done and no callback is registered while fn of
\* syncUpdates is still running
C10_Witness ==
  /\ ~useSyncScheduling
  /\ events = 2
  /\ Len(stack) = 1
  /\ stack[1].k = "syncUpdates"
  /\ \E r \in Roots : current[r] = 1
  /\ Registry = {}
  /\ hostAnimation = 0
  /\ hostDeferred = 0

\* ------------------------------------------------------------------ C11
DeferredLoop ==
  /\ exc = 0
  /\ stack # <<>>
  /\ Top(stack).k = "performAndHandleErrors"
  /\ Top(stack).pc = "loop"
  /\ Top(stack).level = LowPriority

UnitStarted ==
  /\ Len(stack') = Len(stack) + 1
  /\ Top(stack').k = "performUnitOfWork"

\* C11: the deferred loop starts a unit of work only in a step that follows a
\* reading of deadline.timeRemaining() greater than 1; when the reading is 0
\* or 1 while a unit is pending, the loop's next step starts no unit, leaves
\* the pending unit and every tree alone and returns to the host with one
\* deferred callback registered and isDeferredCallbackScheduled true.
C11_DeadlineRespected ==
  [][ DeferredLoop =>
        /\ UnitStarted => Top(stack).time > 1
        /\ nextUnitOfWork # Null /\ Top(stack).time \in {0, 1} =>
             /\ stack' = <<>>
             /\ exc' = 0
             /\ isDeferredCallbackScheduled'
             /\ hostDeferred' = 1
             /\ UNCHANGED <<nextUnitOfWork, nextPriorityLevel, current,
                            pendingWorkPriority, isScheduled, rootNext,
                            nextScheduledRoot, lastScheduledRoot>> ]_vars

\* The deferred loop has read 1 from the deadline with a unit pending and no
\* deferred callback registered
C11_Witness ==
  /\ DeferredLoop
  /\ nextUnitOfWork # Null
  /\ Top(stack).time = 1
  /\ ~isDeferredCallbackScheduled
  /\ hostDeferred = 0

\* ------------------------------------------------------------------ C12
\* The registry in its order: the roots from nextScheduledRoot along the links
RECURSIVE RegistryFrom(_, _, _)
RegistryFrom(t, root, n) ==
  IF root = NoRoot \/ n = 0
  THEN <<>>
  ELSE <<root>> \o RegistryFrom(t, t.rootNext[root], n - 1)

RegistryOrder(t) == RegistryFrom(t, t.nextScheduledRoot, NumRoots)

\* The number of roots at the head of the registry that have no work
Leading(t) ==
  LET seq == RegistryOrder(t)
  IN CHOOSE k \in 0 .. Len(seq) :
       /\ \A i \in 1 .. k : t.pwp[RootCurrent(t, seq[i])] = NoWork
       /\ k < Len(seq) => t.pwp[RootCurrent(t, seq[k + 1])] # NoWork

\* C12: in every reachable state, findNextUnitOfWork called there unschedules
\* exactly the leading roots without work (isScheduled false, link cleared)
\* and keeps the others in order; when a remaining root has work it returns
\* the work in progress of the most urgent one, the earliest on a tie, cloned
\* at that priority, and sets nextPriorityLevel to it; otherwise (and only
\* then) it returns null with nextPriorityLevel = NoWork and an empty registry.
C12_FindNextUnitOfWork ==
  LET r == FindNextUnitOfWork(St)
      seq == RegistryOrder(St)
      k == Leading(St)
      Pending(i) == pendingWorkPriority[RootCurrent(St, seq[i])]
      work == {i \in k + 1 .. Len(seq) : Pending(i) # NoWork}
  IN /\ \A root \in Roots :
          IF \E i \in 1 .. k : seq[i] = root
          THEN ~r.st.isScheduled[root] /\ r.st.rootNext[root] = NoRoot
          ELSE /\ r.st.isScheduled[root] = isScheduled[root]
               /\ r.st.rootNext[root] = rootNext[root]
     /\ RegistryOrder(r.st) = SubSeq(seq, k + 1, Len(seq))
     /\ r.st.current = current
     /\ IF work # {}
        THEN LET b == CHOOSE i \in work :
                        \A j \in work : \/ Pending(i) < Pending(j)
                                         \/ (Pending(i) = Pending(j) /\ i <= j)
             IN /\ r.ret = Alternate(RootCurrent(St, seq[b]))
                /\ r.st.pwp[r.ret] = Pending(b)
                /\ r.st.nextPriorityLevel = Pending(b)
        ELSE /\ r.ret = Null
             /\ r.st.nextPriorityLevel = NoWork
             /\ r.st.nextScheduledRoot = NoRoot
             /\ r.st.lastScheduledRoot = NoRoot
             /\ r.st.pwp = pendingWorkPriority

\* The registry starts with a root without work, followed by one with work
C12_Witness ==
  /\ Len(RegistryOrder(St)) = 2
  /\ Leading(St) = 1

\* Two registered roots have work of the same priority
C12_TieWitness ==
  LET seq == RegistryOrder(St)
  IN /\ Len(seq) = 2
     /\ pendingWorkPriority[RootCurrent(St, seq[1])] # NoWork
     /\ pendingWorkPriority[RootCurrent(St, seq[1])] =
          pendingWorkPriority[RootCurrent(St, seq[2])]

\* ------------------------------------------------------------------ C13
\* The number of times a root occurs in a sequence of roots
Occurrences(seq, root) == Cardinality({i \in 1 .. Len(seq) : seq[i] = root})

\* The more urgent of two priorities, NoWork being the least urgent
MoreUrgent(p, q) == IF p = NoWork THEN q ELSE IF q = NoWork \/ p <= q THEN p ELSE q

\* C13: a scheduling call for a root at a priority p other than NoWork, by
\* scheduleWork, scheduleUpdate or scheduleDeferredWork, leaves
\* root.current.pendingWorkPriority at the more urgent of its previous value
\* and p, leaves the root exactly once in the registry chain, and appends it
\* at the tail exactly when it was not flagged as scheduled
C13_Enqueue ==
  [][ \A root \in Roots, p \in WorkPriorities :
        ScheduleWorkAt(root, p) =>
          /\ pendingWorkPriority'[RootCurrent(St, root)'] =
               MoreUrgent(pendingWorkPriority[RootCurrent(St, root)], p)
          /\ Occurrences(RegistryOrder(St)', root) = 1
          /\ RegistryOrder(St)' = IF isScheduled[root]
                                  THEN RegistryOrder(St)
                                  ELSE Append(RegistryOrder(St), root) ]_vars

\* ------------------------------------------------------------------ C14
\* The frames of the stack that are inside the two passes of commitAllWork
CommitsInProgress(stk) ==
  {i \in 1 .. Len(stk) : stk[i].k = "performUnitOfWork" /\ stk[i].pc = "commitAllWork"}

\* C14: while commitAllWork is between the start of its mutation pass and the
\* end of its life-cycle pass, also when a life-cycle calls the scheduler's
\* public functions, no unit of work is started, no other commit starts,
\* control does not return to the host, and handleErrors is entered only by
\* the step that ends the passes
C14_CommitAtomicity ==
  [][ CommitsInProgress(stack) # {} =>
        /\ ~UnitStarted
        /\ Cardinality(CommitsInProgress(stack')) <= Cardinality(CommitsInProgress(stack))
        /\ stack' # <<>>
        /\ (Len(stack') > Len(stack) /\ Top(stack').k = "handleErrors")
             => CommitsInProgress(stack') = {} ]_vars

\* ------------------------------------------------------------------ C15
\* The fibers of the subtree of f, children before parents, siblings in order
RECURSIVE PostOrder(_)
RECURSIVE PostOrderOfChildren(_, _)
PostOrderOfChildren(f, from) ==
  LET cs == {c \in FiberIds : fiberReturn[c] = f /\ c >= from}
  IN IF cs = {}
     THEN <<>>
     ELSE LET c == CHOOSE x \in cs : \A y \in cs : x <= y
          IN PostOrder(c) \o PostOrderOfChildren(f, c + 1)

PostOrder(f) == PostOrderOfChildren(f, 1) \o <<f>>

\* The proper descendants of the root that were completed in the pass and had
\* an effect when the root was complete, in post-order
EffectfulCompleted ==
  LET Listed(f) == /\ f # RootFiber
                   /\ \E i \in 1 .. Len(completed) : completed[i] = f
                   /\ startTag[f] # NoEffect
  IN SelectSeq(PostOrder(RootFiber), Listed)

\* C15: when the root of a pass that started with empty effect lists is
\* complete, the fibers from its firstEffect along nextEffect to its
\* lastEffect are exactly its proper descendants completed in the pass whose
\* effectTag is not NoEffect, each once, in post-order, without the root
C15_EffectList ==
  phase = "mutation" =>
    /\ EffectList(Fx, RootFiber) = EffectfulCompleted
    /\ IF EffectfulCompleted = <<>>
       THEN firstEffect[RootFiber] = NoFiber /\ lastEffect[RootFiber] = NoFiber
       ELSE /\ firstEffect[RootFiber] = EffectfulCompleted[1]
            /\ lastEffect[RootFiber] = EffectfulCompleted[Len(EffectfulCompleted)]

\* The root is complete with the effect list 2, 4, 3: a leaf, then the child
\* of its sibling, then the sibling
C15_Witness ==
  /\ phase = "mutation"
  /\ effectTag = startTag
  /\ EffectList(Fx, RootFiber) = <<2, 4, 3>>

\* ------------------------------------------------------------------ C19
\* The number of calls of an operation on a fiber that commitAllWork has made
CallsOf(op, f) == Cardinality({i \in 1 .. Len(calls) : calls[i] = Call(op, f)})

\* C19: the first pass of commitAllWork changes the effectTag of a fiber of
\* the effect list only by clearing its Placement bit, and the second pass
\* calls commitLifeCycles exactly once for every fiber of the effect list
\* whose effectTag had the Update or the Callback bit when the commit began
C19_CallbackBitsKept ==
  /\ phase \in {"lifeCycles", "root", "done"} =>
       \A i \in 1 .. Len(startList) :
         LET f == startList[i]
         IN effectTag[f] = startTag[f] - BitAnd(startTag[f], Placement)
  /\ phase \in {"root", "done"} =>
       \A i \in 1 .. Len(startList) :
         LET f == startList[i]
         IN BitAnd(startTag[f], BitOr(Update, Callback)) # 0
              => CallsOf("commitLifeCycles", f) = 1

\* ------------------------------------------------------------------ C20
MutationOps == {"commitInsertion", "commitWork", "commitDeletion"}

\* The calls that commitAllWork has made on fibers other than the root
ListCalls == SelectSeq(calls, LAMBDA c : c.fiber # RootFiber)

\* The place of a fiber in the effect list the commit began with (0: the
\* fiber is not in it)
Position(f) ==
  IF \E i \in 1 .. Len(startList) : startList[i] = f
  THEN CHOOSE i \in 1 .. Len(startList) : startList[i] = f
  ELSE 0

\* f is a proper descendant of g
RECURSIVE Below(_, _)
Below(f, g) ==
  /\ fiberReturn[f] # NoFiber
  /\ (fiberReturn[f] = g \/ Below(fiberReturn[f], g))

\* C20: in one commit every call of commitInsertion, commitWork and
\* commitDeletion on a fiber of the effect list comes before the first call
\* of commitLifeCycles, and each of the two passes calls on the fibers in
\* the order of the effect list, which has children before their parents
C20_TwoPasses ==
  /\ \A i \in 1 .. Len(ListCalls) :
       /\ \E k \in 1 .. Len(startList) : startList[k] = ListCalls[i].fiber
       /\ \A j \in 1 .. Len(ListCalls) :
            i < j =>
              /\ ~(/\ ListCalls[i].op = "commitLifeCycles"
                   /\ ListCalls[j].op \in MutationOps)
              /\ (ListCalls[i].op \in MutationOps <=> ListCalls[j].op \in MutationOps)
                   => Position(ListCalls[i].fiber) <= Position(ListCalls[j].fiber)
  /\ \A i, j \in 1 .. Len(startList) :
       Below(startList[i], startList[j]) => i < j

\* A commit is over in which three fibers, one of them the parent of another,
\* each had a mutation and a life-cycle
C20_Witness ==
  /\ phase = "done"
  /\ startList = <<2, 4, 3>>
  /\ fiberReturn[4] = 3
  /\ \A f \in {2, 3, 4} :
       CallsOf("commitWork", f) = 1 /\ CallsOf("commitLifeCycles", f) = 1

\* ------------------------------------------------------------------ C18
\* C18: in every state outside findNextUnitOfWork, after any scheduling
\* calls, work and caught or uncaught errors, a root is flagged isScheduled
\* exactly when it is reached from nextScheduledRoot along the links
C18_RegistryMembership ==
  \A root \in Roots : isScheduled[root] <=> root \in Registry

\* ------------------------------------------------------------------ C16
\* The loop of performSynchronousWorkUnsafe or performAnimationWorkUnsafe
\* ends: its condition is false and the function returns
UrgentLoopEnds ==
  /\ exc = 0
  /\ stack # <<>>
  /\ Top(stack).k = "performAndHandleErrors"
  /\ Top(stack).pc = "loop"
  /\ Top(stack).level \in {SynchronousPriority, AnimationPriority}
  /\ stack' = Pop(stack)

\* The registered roots with work less urgent than the level
Deferred(level) ==
  {r \in Registry : /\ pendingWorkPriority[RootCurrent(St, r)] # NoWork
                    /\ pendingWorkPriority[RootCurrent(St, r)] > level}

\* C16 (deferral): when a synchronous or animation work loop ends while a
\* registered root has pending work of lower urgency, the step leaves the
\* registry, the isScheduled flags and the pending priorities as they are,
\* the root is flagged isScheduled, and a host callback is outstanding: a
\* deferred one, or an animation one, whose loop ends by registering a
\* deferred one
C16_Deferral ==
  [][ UrgentLoopEnds /\ Deferred(Top(stack).level) # {} =>
        /\ UNCHANGED <<pendingWorkPriority, isScheduled, rootNext, current,
                       nextScheduledRoot, lastScheduledRoot>>
        /\ \A r \in Deferred(Top(stack).level) : isScheduled[r]
        /\ hostAnimation' + hostDeferred' > 0
        /\ (hostAnimation' > 0) = isAnimationCallbackScheduled'
        /\ (hostDeferred' > 0) = isDeferredCallbackScheduled' ]_vars

\* C16 (deferred, not cancelled): a root that had work of lower urgency when
\* a synchronous or animation work loop ended stays, until it is committed,
\* in the registry with isScheduled true and with pending work, so that the
\* host callbacks find its work
C16_DeferredNotCancelled ==
  \A r \in deferred :
    /\ r \in Registry
    /\ isScheduled[r]
    /\ pendingWorkPriority[RootCurrent(St, r)] # NoWork

\* ------------------------------------------------------------------ C17
\* performAndHandleErrors is in its catch block, trapError gave a boundary,
\* and nothing has raised an error since the catch
Recovering(fr) ==
  /\ fr.k = "performAndHandleErrors"
  /\ fr.pc = "caught"
  /\ fr.boundary # Null
  /\ fr.clean

\* The handleErrors call of the catch block is at its end
RecoveryEnds ==
  /\ HandleErrorsEnds
  /\ Len(stack) >= 2
  /\ Recovering(stack[Len(stack) - 1])

\* The catch block is at its end
CatchEnds ==
  /\ exc = 0
  /\ stack # <<>>
  /\ Recovering(Top(stack))

\* handleErrors starts the re-render of a boundary
RecoverStarts ==
  /\ exc = 0
  /\ stack # <<>>
  /\ Top(stack).k = "handleErrors"
  /\ Top(stack).pc = "recover"
  /\ Top(stack).todo # <<>>

\* C17: when a unit of work throws in a work loop, trapError gives a boundary
\* and nothing raises a further error, handleErrors re-renders the boundary's
\* root from a clone at priorityContext, returns without throwing and without
\* touching the registry, and performAndHandleErrors then returns normally
\* with nextUnitOfWork null and the boundary's root committed
C17_BoundaryRecovery ==
  [][ /\ RecoverStarts =>
           /\ Top(stack').pc = "render"
           /\ Top(stack').fiber = Alternate(RootCurrent(St, Head(Top(stack).todo)[1]))
           /\ pendingWorkPriority'[Top(stack').fiber] = priorityContext
           /\ pendingWorkPriority'[Head(Top(stack).todo)] = priorityContext
      /\ RecoveryEnds =>
           /\ exc' = 0
           /\ stack' = Pop(stack)
           /\ UNCHANGED <<nextScheduledRoot, lastScheduledRoot, rootNext, isScheduled>>
      /\ CatchEnds =>
           /\ exc' = 0
           /\ stack' = Pop(stack)
           /\ nextUnitOfWork' = Null
           /\ Top(stack).boundary[1] \in Top(stack).done ]_vars

\* A recovery that raised no further error has ended with the boundary's root
\* committed, in a deferred callback
C17_Witness ==
  /\ exc = 0
  /\ stack # <<>>
  /\ Recovering(Top(stack))
  /\ Top(stack).level = LowPriority
  /\ Len(lastHandled) = 1
  /\ lastHandled[1].boundary # Null
  /\ Top(stack).boundary[1] \in Top(stack).done

\* ------------------------------------------------------------------ C21
\* A unit of work performed with ignoreUnmountingErrors set: the loop of
\* handleErrors that re-renders a boundary has called performUnitOfWork
RecoveryUnit(i) ==
  /\ stack[i].k = "performUnitOfWork"
  /\ stack[i].ignore

\* C21: the units of work the error pipeline performs while it re-renders a
\* boundary, and so the commits made with unmount errors ignored, belong to
\* the root that contains that boundary; no work of another registered root
\* is performed inside the recovery loop
C21_RecoveryLocal ==
  \A i \in 1 .. Len(stack) :
    RecoveryUnit(i) =>
      /\ i > 1
      /\ stack[i - 1].k = "handleErrors"
      /\ stack[i].fiber[1] = stack[i - 1].boundary[1]

\* ------------------------------------------------------------------ C22
\* C22: while an invocation of handleErrors is active, no performUnitOfWork
\* call it drives starts a nested invocation of handleErrors: the errors of a
\* boundary re-render are left to the next iteration of the outer loop
C22_Iterative ==
  \A i \in 1 .. Len(stack) :
    RecoveryUnit(i) => stack[i].pc # "handleErrors"

\* ------------------------------------------------------------------ C23
\* completeUnitOfWork returns the work that completeWork spawned for the
\* unit: the next unit is a child of the unit that was being completed
SpawnedWorkReturned ==
  /\ phase = "render"
  /\ nextUnit # NoFiber
  /\ nextUnit' # NoFiber
  /\ fiberReturn[nextUnit'] = nextUnit
  /\ completed' # completed

\* C23: when completeWork spawns work for a fiber, completeUnitOfWork returns
\* that work before the later steps are applied to the fiber: its
\* pendingWorkPriority is not reset, its pendingProps and updateQueue are not
\* cleared, and the effect list of its parent is left as it was
C23_SpawnedWorkFirst ==
  [][ SpawnedWorkReturned =>
        /\ workPriority'[nextUnit] = workPriority[nextUnit]
        /\ pendingProps'[nextUnit] = pendingProps[nextUnit]
        /\ updateQueue'[nextUnit] = updateQueue[nextUnit]
        /\ UNCHANGED <<firstEffect, lastEffect, nextEffect>> ]_vars

\* ------------------------------------------------------------------ C24
\* No scheduler function is on the call stack and no update is batched
Quiescent ==
  /\ stack = <<>>
  /\ exc = 0
  /\ ~shouldBatchUpdates

\* A registered root has pending work, or a unit of work is left
WorkLeft ==
  \/ \E r \in Registry : pendingWorkPriority[RootCurrent(St, r)] # NoWork
  \/ nextUnitOfWork # Null

\* C24: in every quiescent state in which a registered root has pending work
\* or nextUnitOfWork is not null, an animation callback or a deferred
\* callback is scheduled
C24_NoLostWakeUp ==
  Quiescent /\ WorkLeft =>
    isAnimationCallbackScheduled \/ isDeferredCallbackScheduled

\* A quiescent state after a boundary recovery in which a registered root has
\* pending work and only a deferred callback is scheduled for it
C24_Witness ==
  /\ Quiescent
  /\ \E r \in Registry : pendingWorkPriority[RootCurrent(St, r)] # NoWork
  /\ Len(lastHandled) = 1
  /\ lastHandled[1].boundary # Null
  /\ isDeferredCallbackScheduled
  /\ ~isAnimationCallbackScheduled

\* ------------------------------------------------------------------ C25
\* An invocation of handleErrors has taken its first batch
Started(i) ==
  /\ stack[i].k = "handleErrors"
  /\ ~(stack[i].pc = "while" /\ stack[i].log = <<>>)

\* C25: handleErrors ends for every pattern of failing acknowledgements and
\* failing re-renders: every error trapped for the next iteration of the loop
\* has no boundary or a boundary strictly higher in the tree than the highest
\* boundary of the batch of the iteration in progress, so the heights of the
\* batches decrease until a batch leaves no new trapped error
C25_Termination ==
  \A i \in 1 .. Len(stack) :
    Started(i) =>
      \A n \in 1 .. Len(stack[i].errs) :
        Height(stack[i].errs[n].boundary) < stack[i].rank

\* An iteration of rank 1 has left an error for a second iteration, whose
\* batch has no boundary
C25_Witness ==
  /\ stack # <<>>
  /\ Top(stack).k = "handleErrors"
  /\ Top(stack).pc = "forEach"
  /\ Top(stack).rank = 0
  /\ Top(stack).cur # <<>>
  /\ Top(stack).log # <<>>
  /\ Top(stack).log[1].boundary # Null

====
